---- MODULE Spec2Model ----
(***************************************************************************)
(* Model of analyze_courses.py: main() reads complete_courses.csv through  *)
(* csv.DictReader, aggregates course counts and hours per company in a     *)
(* defaultdict, sorts the items by course count (descending) and prints a  *)
(* report.  Every statement that can raise is a step of its own; an        *)
(* uncaught exception ends the run in pc = "failed".                       *)
(*                                                                         *)
(* Hours are Python floats.  The model draws durations that are multiples  *)
(* of half an hour, for which float addition is exact, and represents an   *)
(* hours value by its number of half hours (an integer).                   *)
(***************************************************************************)
EXTENDS Integers, Sequences, FiniteSets, TLC

VARIABLES
    fileExists,        \* whether open(csv_path) finds a readable file
    header,            \* the file's first row: the column names
    lines,             \* the file's remaining lines, each a sequence of fields
    pc,                \* position of main()
    i,                 \* index of the next row the reader yields
    company_data,      \* the defaultdict, as its items() in insertion order
    sorted_companies,  \* the list built at line 29
    j,                 \* index of the next item of the render loop
    total_courses,
    total_hours,
    out,               \* the lines written to standard output
    err,               \* the exception that ended the run, "" if none
    errLine            \* the source line that raised it, 0 if none

vars == <<fileExists, header, lines, pc, i, company_data, sorted_companies,
          j, total_courses, total_hours, out, err, errLine>>

(***************************************************************************)
(* Bounds and input alphabet.                                              *)
(***************************************************************************)
MaxRows == 3

Companies == {"Acme", "Globex", "Initech"}
DurTexts == {"1.5", "2.0", "abc"}
Titles == {"t"}

\* Python's None: the value DictReader gives a column the row is too short for.
NoneVal == "<None>"

Headers == { <<"company", "duration">>, <<"duration", "company">>,
             <<"company", "title">>, <<"title", "duration">> }

FieldsOf(col) ==
    CASE col = "company" -> Companies
      [] col = "duration" -> DurTexts
      [] OTHER -> Titles

\* The lines a file with header h can hold: a blank line, or the first n
\* fields of a row, each drawn from its column's alphabet.
LinesOf(h) ==
    UNION { { l \in [1..n -> Companies \cup DurTexts \cup Titles] :
                \A k \in 1..n : l[k] \in FieldsOf(h[k]) } : n \in 0..Len(h) }

RECURSIVE SeqsUpTo(_, _)
SeqsUpTo(S, n) ==
    IF n = 0 THEN { <<>> }
    ELSE LET shorter == SeqsUpTo(S, n - 1)
         IN  shorter \cup { Append(s, x) : s \in { t \in shorter : Len(t) = n - 1 }, x \in S }

(***************************************************************************)
(* csv.DictReader                                                          *)
(***************************************************************************)
Range(s) == { s[k] : k \in 1..Len(s) }

\* One row as a dict: column name -> field, None for the columns the row
\* is too short for (restval).
DictRow(h, l) ==
    [ c \in Range(h) |->
        LET k == CHOOSE k \in 1..Len(h) : h[k] = c
        IN  IF k <= Len(l) THEN l[k] ELSE NoneVal ]

NonBlank(l) == l # <<>>

DictReaderKeepBlank(h, ls) ==
    [ k \in 1..Len(ls) |-> DictRow(h, ls[k]) ]

\* The rows the reader yields: blank lines are skipped.
DictReader(h, ls) ==
    LET kept == SelectSeq(ls, NonBlank)
    IN  [ k \in 1..Len(kept) |-> DictRow(h, kept[k]) ]

rows == DictReader(header, lines)

(***************************************************************************)
(* float(): the parsed value in half hours, or the exception it raises.    *)
(***************************************************************************)
FloatTable == ("1.5" :> 3) @@ ("2.0" :> 4)

floatLenient(s) ==
    IF s \in DOMAIN FloatTable THEN [exc |-> "", val |-> FloatTable[s]]
    ELSE [exc |-> "", val |-> 0]

float(s) ==
    IF s = NoneVal THEN [exc |-> "TypeError", val |-> 0]
    ELSE IF s \in DOMAIN FloatTable THEN [exc |-> "", val |-> FloatTable[s]]
    ELSE [exc |-> "ValueError", val |-> 0]

\* row[key]: a KeyError when the header has no such column.
HasKeyLenient(row, key) == TRUE

HasKey(row, key) == key \in DOMAIN row

GetItem(row, key) == IF key \in DOMAIN row THEN row[key] ELSE NoneVal

(***************************************************************************)
(* The defaultdict and the two += of lines 25-26.                          *)
(***************************************************************************)
KeysOf(cd) == { cd[k].company : k \in 1..Len(cd) }

\* A lookup that inserts a fresh entry even when the key is present.
TouchAlwaysInserts(cd, company) ==
    Append(cd, [company |-> company, courses |-> 0, hours |-> 0])

\* company_data[company]: a missing key is inserted, at the end, with the
\* default factory's value.
Touch(cd, company) ==
    IF company \in KeysOf(cd) THEN cd
    ELSE Append(cd, [company |-> company, courses |-> 0, hours |-> 0])

AddCourseOverwrite(cd, company, duration) ==
    LET t == Touch(cd, company)
    IN  [ k \in 1..Len(t) |->
            IF t[k].company = company
            THEN [t[k] EXCEPT !.courses = 1, !.hours = duration]
            ELSE t[k] ]

AddCourse(cd, company, duration) ==
    LET t == Touch(cd, company)
    IN  [ k \in 1..Len(t) |->
            IF t[k].company = company
            THEN [t[k] EXCEPT !.courses = @ + 1, !.hours = @ + duration]
            ELSE t[k] ]

(***************************************************************************)
(* sorted(items, key=courses, reverse=True): stable, descending.           *)
(***************************************************************************)
\* x goes before every item whose count equals its own: ties come out reversed.
InsertDescTiesReversed(s, x) ==
    LET before == { k \in 1..Len(s) : s[k].courses > x.courses }
        n == IF before = {} THEN 0 ELSE CHOOSE k \in before : \A m \in before : m <= k
    IN  SubSeq(s, 1, n) \o <<x>> \o SubSeq(s, n + 1, Len(s))

\* x goes after every item whose count is >= its own.
InsertDesc(s, x) ==
    LET before == { k \in 1..Len(s) : s[k].courses >= x.courses }
        n == IF before = {} THEN 0 ELSE CHOOSE k \in before : \A m \in before : m <= k
    IN  SubSeq(s, 1, n) \o <<x>> \o SubSeq(s, n + 1, Len(s))

RECURSIVE SortWith(_, _)
SortWith(items, n) ==
    IF n = 0 THEN <<>> ELSE InsertDesc(SortWith(items, n - 1), items[n])

SortedUnsorted(items) == items

Sorted(items) == SortWith(items, Len(items))

\* Counts one per company instead of adding the company's value.
AccumulateOne(total, value) == total + 1

\* total += value (lines 43-44).
Accumulate(total, value) == total + value

(***************************************************************************)
(* Output lines.                                                           *)
(***************************************************************************)
\* "%.1f" of a value of h half hours: <<integer part, first decimal>>.
Fmt1(h) == <<h \div 2, 5 * (h % 2)>>

ReadingLine == [kind |-> "reading"]
BlankLine == [kind |-> "blank"]
BannerLine == [kind |-> "banner"]
TitleLine == [kind |-> "title"]
CompanyLine(company, courses, hours) ==
    [kind |-> "company", company |-> company, courses |-> courses, hours |-> Fmt1(hours)]
TotalLine(courses, hours) ==
    [kind |-> "total", courses |-> courses, hours |-> Fmt1(hours)]

HeadLines == <<BannerLine, TitleLine, BannerLine, BlankLine>>

PathLinesThenHead == <<ReadingLine, BlankLine>> \o HeadLines

\* print(f"Reading file: {csv_path}\n")
PathLines == <<ReadingLine, BlankLine>>

TailLines(courses, hours) ==
    <<BlankLine, BannerLine, TotalLine(courses, hours), BannerLine, BlankLine>>

(***************************************************************************)
(* The run.                                                                *)
(***************************************************************************)
Init ==
    /\ \E h \in Headers \cup { <<>> } :
         /\ header = h
         /\ fileExists = (h # <<>>)
         /\ lines \in SeqsUpTo(IF h = <<>> THEN {} ELSE LinesOf(h), MaxRows)
    /\ pc = "start"
    /\ i = 1
    /\ company_data = <<>>
    /\ sorted_companies = <<>>
    /\ j = 1
    /\ total_courses = 0
    /\ total_hours = 0
    /\ out = <<>>
    /\ err = ""
    /\ errLine = 0

Raise(exc, line) ==
    /\ pc' = "failed"
    /\ err' = exc
    /\ errLine' = line

\* Line 16, then line 18 (company_data is already empty).
PrintPath ==
    /\ pc = "start"
    /\ out' = out \o PathLines
    /\ pc' = "open"
    /\ UNCHANGED <<fileExists, header, lines, i, company_data, sorted_companies,
                   j, total_courses, total_hours, err, errLine>>

\* Line 20.
OpenFile ==
    /\ pc = "open"
    /\ IF fileExists
       THEN /\ pc' = "load"
            /\ UNCHANGED <<err, errLine>>
       ELSE Raise("FileNotFoundError", 20)
    /\ UNCHANGED <<fileExists, header, lines, i, company_data, sorted_companies,
                   j, total_courses, total_hours, out>>

\* Lines 22-26: one iteration of the loop over the reader.
LoadRow ==
    /\ pc = "load"
    /\ i <= Len(rows)
    /\ LET row == rows[i]
           company == GetItem(row, "company")
           duration == float(GetItem(row, "duration"))
       IN  IF ~HasKey(row, "company")
           THEN Raise("KeyError", 23) /\ UNCHANGED <<i, company_data>>
           ELSE IF ~HasKey(row, "duration")
           THEN Raise("KeyError", 24) /\ UNCHANGED <<i, company_data>>
           ELSE IF duration.exc # ""
           THEN Raise(duration.exc, 24) /\ UNCHANGED <<i, company_data>>
           ELSE /\ company_data' = AddCourse(company_data, company, duration.val)
                /\ i' = i + 1
                /\ UNCHANGED <<pc, err, errLine>>
    /\ UNCHANGED <<fileExists, header, lines, sorted_companies, j,
                   total_courses, total_hours, out>>

\* The reader is exhausted; line 29.
SortCompanies ==
    /\ pc = "load"
    /\ i > Len(rows)
    /\ sorted_companies' = Sorted(company_data)
    /\ pc' = "head"
    /\ UNCHANGED <<fileExists, header, lines, i, company_data, j,
                   total_courses, total_hours, out, err, errLine>>

\* Lines 32-38.
PrintHead ==
    /\ pc = "head"
    /\ out' = out \o HeadLines
    /\ total_courses' = 0
    /\ total_hours' = 0
    /\ pc' = "render"
    /\ UNCHANGED <<fileExists, header, lines, i, company_data, sorted_companies,
                   j, err, errLine>>

\* Lines 40-45: one iteration of the render loop.  The totals are added
\* before the line is formatted; "{company:20s}" raises for None.
PrintCompany ==
    /\ pc = "render"
    /\ j <= Len(sorted_companies)
    /\ LET data == sorted_companies[j]
       IN  /\ total_courses' = Accumulate(total_courses, data.courses)
           /\ total_hours' = Accumulate(total_hours, data.hours)
           /\ IF data.company = NoneVal
              THEN Raise("TypeError", 45) /\ UNCHANGED <<j, out>>
              ELSE /\ out' = Append(out, CompanyLine(data.company, data.courses, data.hours))
                   /\ j' = j + 1
                   /\ UNCHANGED <<pc, err, errLine>>
    /\ UNCHANGED <<fileExists, header, lines, i, company_data, sorted_companies>>

\* Lines 47-51.
PrintTotal ==
    /\ pc = "render"
    /\ j > Len(sorted_companies)
    /\ out' = out \o TailLines(total_courses, total_hours)
    /\ pc' = "done"
    /\ UNCHANGED <<fileExists, header, lines, i, company_data, sorted_companies,
                   j, total_courses, total_hours, err, errLine>>

Next ==
    \/ PrintPath
    \/ OpenFile
    \/ LoadRow
    \/ SortCompanies
    \/ PrintHead
    \/ PrintCompany
    \/ PrintTotal

Spec == Init /\ [][Next]_vars

(***************************************************************************)
(* What the properties below are stated over.                              *)
(***************************************************************************)
NumericTexts == DOMAIN FloatTable

HeaderValid == {"company", "duration"} \subseteq Range(header)

MissingColumn == ~HeaderValid

\* A valid file: both columns, and every row has a company and a numeric
\* duration.
ValidInput ==
    /\ fileExists
    /\ HeaderValid
    /\ \A k \in 1..Len(rows) :
         rows[k]["company"] # NoneVal /\ rows[k]["duration"] \in NumericTexts

RowCount(company, n) ==
    Cardinality({ k \in 1..n : rows[k]["company"] = company })

RECURSIVE RowHours(_, _)
RowHours(company, n) ==
    IF n = 0 THEN 0
    ELSE RowHours(company, n - 1)
         + (IF rows[n]["company"] = company THEN FloatTable[rows[n]["duration"]] ELSE 0)

\* The durations of the first n rows, added in file order.
RECURSIVE HoursInFileOrder(_)
HoursInFileOrder(n) ==
    IF n = 0 THEN 0 ELSE HoursInFileOrder(n - 1) + FloatTable[rows[n]["duration"]]

FirstAppearance(company) ==
    CHOOSE k \in 1..Len(rows) :
        /\ rows[k]["company"] = company
        /\ \A m \in 1..(k - 1) : rows[m]["company"] # company

IsCompanyLine(l) == l.kind = "company"
IsTotalLine(l) == l.kind = "total"
IsReportLine(l) == l.kind \in {"banner", "title", "company", "total"}

Printed == SelectSeq(out, IsCompanyLine)
PrintedTotals == SelectSeq(out, IsTotalLine)
NoReportLine == \A k \in 1..Len(out) : ~IsReportLine(out[k])

RECURSIVE SumCourses(_, _)
SumCourses(p, n) == IF n = 0 THEN 0 ELSE SumCourses(p, n - 1) + p[n].courses

\* The load pass ran to the end of the file without raising.
LoadCompleted == pc \in {"head", "render", "done"} \/ (pc = "failed" /\ errLine = 45)

\* C1: with every row holding a company and a numeric duration, after each
\* processed row (and from then on) the mapping has exactly one entry per
\* distinct company among the rows read so far, whose courses is the number
\* of those rows and whose hours is the sum of their durations.
C1_AggregateMatchesPrefix ==
    (pc \notin {"start", "open"} /\ ValidInput) =>
        LET n == i - 1
        IN  /\ KeysOf(company_data) = { rows[k]["company"] : k \in 1..n }
            /\ Cardinality(KeysOf(company_data)) = Len(company_data)
            /\ \A e \in 1..Len(company_data) :
                 /\ company_data[e].courses = RowCount(company_data[e].company, n)
                 /\ company_data[e].hours = RowHours(company_data[e].company, n)

C1_Witness ==
    /\ ValidInput
    /\ pc = "load"
    /\ i = 4
    /\ Len(company_data) = 2
    /\ company_data[2].courses = 2
    /\ company_data[2].hours = 7

\* C2: for a valid file, the course total of the TOTAL line equals the
\* number of data rows, and is the sum of the printed course counts.
C2_TotalCoursesIsRowCount ==
    (pc = "done" /\ ValidInput) =>
        /\ Len(PrintedTotals) = 1
        /\ PrintedTotals[1].courses = Len(rows)
        /\ PrintedTotals[1].courses = SumCourses(Printed, Len(Printed))

C2_Witness ==
    /\ ValidInput
    /\ pc = "done"
    /\ Len(rows) = 3
    /\ Len(Printed) = 2
    /\ PrintedTotals[1].courses = 3

\* C3: for a valid file, the printed course counts are non-increasing from
\* each company line to the next, and the company lines are a permutation
\* of the mapping's entries.
C3_PrintedSortedPermutation ==
    (pc \in {"render", "done"} /\ ValidInput) =>
        /\ \A k \in 1..(Len(Printed) - 1) : Printed[k].courses >= Printed[k + 1].courses
        /\ pc = "done" =>
             /\ Len(Printed) = Len(company_data)
             /\ Range(Printed) =
                  { CompanyLine(company_data[e].company, company_data[e].courses,
                                company_data[e].hours) : e \in 1..Len(company_data) }

C3_Witness ==
    /\ ValidInput
    /\ pc = "done"
    /\ Len(Printed) = 2
    /\ Printed[1].courses = 2
    /\ Printed[1].company # company_data[1].company

\* The rows whose duration float() cannot parse.
BadRows == { k \in 1..Len(rows) : rows[k]["duration"] \notin NumericTexts }
FirstBad == CHOOSE k \in BadRows : \A m \in BadRows : k <= m

\* C4: when some row's duration is not parseable as a number, the run never
\* gets past the load pass and never prints a report line; the load loop
\* cannot advance beyond the first such row, and when it reaches it the run
\* fails there, at line 24, however many valid rows came before.
C4_BadDurationIsFatal ==
    (fileExists /\ "duration" \in Range(header) /\ BadRows # {}) =>
        /\ pc \in {"start", "open", "load", "failed"}
        /\ NoReportLine
        /\ i <= FirstBad
        /\ pc = "failed" =>
             /\ errLine \in {23, 24}
             /\ HeaderValid =>
                  /\ i = FirstBad
                  /\ errLine = 24
                  /\ err \in {"ValueError", "TypeError"}

C4_Witness ==
    /\ HeaderValid
    /\ Len(rows) = 3
    /\ rows[3]["duration"] = "abc"
    /\ pc = "failed"
    /\ err = "ValueError"
    /\ i = 3
    /\ Len(company_data) = 2

\* C5 as stated: every run that ends in a fatal error has written nothing
\* to standard output.
C5_NoOutputOnFatal ==
    pc = "failed" => out = <<>>

\* C5 as amended: every run that ends in a fatal error has written the
\* "Reading file" line first; when the error is raised by opening the file
\* or by the load pass, that line and the blank line after it are the whole
\* output, with no line of the report.
C5_OnlyPathLineOnLoadFatal ==
    pc = "failed" =>
        /\ Len(out) >= 2
        /\ out[1] = [kind |-> "reading"]
        /\ errLine \in {20, 23, 24} => out = <<[kind |-> "reading"], [kind |-> "blank"]>>

C5_Witness ==
    /\ pc = "failed"
    /\ err = "TypeError"
    /\ errLine = 24
    /\ i = 2
    /\ Len(out) = 2

\* C6 as stated: a file whose header lacks company or duration never
\* reaches a successful exit, whatever its number of data rows.
C6_MissingColumnNeverDone ==
    (fileExists /\ MissingColumn) => pc # "done"

\* C6 as amended: a file whose header lacks company or duration and that
\* has at least one data row fails with a KeyError on the first row, in the
\* load pass, and never renders a report.
C6_MissingColumnFatalOnFirstRow ==
    (fileExists /\ MissingColumn /\ Len(rows) >= 1) =>
        /\ pc \in {"start", "open", "load", "failed"}
        /\ NoReportLine
        /\ i = 1
        /\ company_data = <<>>
        /\ pc = "failed" => err = "KeyError" /\ errLine \in {23, 24}

C6_Witness ==
    /\ MissingColumn
    /\ Len(rows) = 2
    /\ pc = "failed"
    /\ err = "KeyError"
    /\ errLine = 23

\* C7: for a valid file, the hours total of the TOTAL line (added company
\* by company in sorted order) equals the sum of all rows' durations taken
\* in file order.
C7_TotalHoursIsFileOrderSum ==
    (pc = "done" /\ ValidInput) =>
        /\ total_hours = HoursInFileOrder(Len(rows))
        /\ Len(PrintedTotals) = 1
        /\ PrintedTotals[1].hours = Fmt1(HoursInFileOrder(Len(rows)))

C7_Witness ==
    /\ ValidInput
    /\ pc = "done"
    /\ Len(rows) = 3
    /\ rows[1]["company"] = rows[3]["company"]
    /\ rows[1]["company"] # rows[2]["company"]
    /\ rows[1]["duration"] # rows[3]["duration"]
    /\ total_hours = 11

\* Only blank lines, or none, follow the header.
ZeroDataRows == \A k \in 1..Len(lines) : lines[k] = <<>>

\* C8: a file with a valid header and zero data rows runs to a successful
\* exit with no company line and a TOTAL line of 0 courses and 0.0 hours.
C8_HeaderOnlyReport ==
    (fileExists /\ HeaderValid /\ ZeroDataRows) =>
        /\ pc # "failed"
        /\ pc = "done" =>
             out = << [kind |-> "reading"], [kind |-> "blank"],
                      [kind |-> "banner"], [kind |-> "title"], [kind |-> "banner"],
                      [kind |-> "blank"],
                      [kind |-> "blank"], [kind |-> "banner"],
                      [kind |-> "total", courses |-> 0, hours |-> <<0, 0>>],
                      [kind |-> "banner"], [kind |-> "blank"] >>

C8_Witness ==
    /\ fileExists
    /\ HeaderValid
    /\ ZeroDataRows
    /\ Len(lines) = 1
    /\ pc = "done"
    /\ Len(PrintedTotals) = 1

\* C9: for a valid file, of two printed companies with equal course counts
\* the one whose first row comes earlier in the file is printed first.
C9_TiesInFirstAppearanceOrder ==
    (pc = "done" /\ ValidInput) =>
        \A a, b \in 1..Len(Printed) :
            (a < b /\ Printed[a].courses = Printed[b].courses) =>
                FirstAppearance(Printed[a].company) < FirstAppearance(Printed[b].company)

C9_Witness ==
    /\ ValidInput
    /\ pc = "done"
    /\ Len(Printed) = 3
    /\ Printed[1].company = "Initech"
    /\ Printed[2].company = "Acme"
    /\ Printed[3].company = "Globex"

\* C10: a fatal error occurs only before rendering starts; once the load
\* pass has completed, the mapping stays what the pass left (the aggregate
\* of all rows, one entry per company), and a finished run has printed one
\* line for every company and the TOTAL line.
C10_RenderCannotFail ==
    /\ pc = "failed" => errLine \in {20, 23, 24}
    /\ LoadCompleted =>
         /\ i = Len(rows) + 1
         /\ \A e \in 1..Len(company_data) :
              company_data[e].courses = RowCount(company_data[e].company, Len(rows))
    /\ pc = "done" =>
         /\ Len(Printed) = Len(company_data)
         /\ Len(PrintedTotals) = 1

====
